---- MODULE Spec2Model ----
(***************************************************************************)
(* A model of psycopg/xid_type.c: the Xid type (validation in xid_init),   *)
(* the transaction-id codec (xid_get_tid, xid_from_string) and the         *)
(* recovery scan (xid_recover).                                            *)
(*                                                                         *)
(* Python strings are sequences of bytes (0..255).  A Python object is a   *)
(* record [t, v]: t is its type ("None", "str", "int"), v its payload as   *)
(* a sequence: the bytes of a str, the decimal text of an int (Python      *)
(* integers are unbounded, so they are kept as text; a C int is a number). *)
(***************************************************************************)
EXTENDS Integers, Sequences, FiniteSets, TLC

VARIABLES heap, made, ret

vars == <<heap, made, ret>>

(***************************************************************************)
(* Python objects                                                          *)
(***************************************************************************)
None == [t |-> "None", v |-> <<>>]

PyString(bytes) == [t |-> "str", v |-> bytes]

PyInt(text) == [t |-> "int", v |-> text]

\* The largest C int, the longest XA component and the printable range
\* [0x20, 0x7f) of xid_init.  ASCII codes below: 45 '-', 48 '0', 57 '9',
\* 61 '=', 95 '_'.
INT_MAX == 2147483647

MaxComponentLen == 64

FirstPrintable == 32

FirstNonPrintable == 127

\* The decimal text of -INT_MIN, "2147483648".
INT_MIN_MAGNITUDE == <<50, 49, 52, 55, 52, 56, 51, 54, 52, 56>>

IsDigit(c) == 48 <= c /\ c <= 57

RECURSIVE Digits(_)
\* The decimal text of n >= 0, as the C library prints a long.
Digits(n) ==
    IF n < 10 THEN <<48 + n>> ELSE Digits(n \div 10) \o <<48 + (n % 10)>>

\* PyInt_FromLong: the Python int of a C long.
PyInt_FromLong(n) ==
    PyInt(IF n < 0 THEN <<45>> \o Digits(0 - n) ELSE Digits(n))

RECURSIVE StripZeros(_)
StripZeros(d) ==
    IF Len(d) > 1 /\ d[1] = 48 THEN StripZeros(Tail(d)) ELSE d

\* int(item) on a string of decimal digits: an int (or long) of any size.
PyInt_FromDigits(item) == PyInt(StripZeros(item))

RECURSIVE LexLeq(_, _)
LexLeq(a, b) ==
    IF a = <<>> THEN TRUE
    ELSE IF a[1] # b[1] THEN a[1] < b[1]
    ELSE LexLeq(Tail(a), Tail(b))

\* a <= b for two decimal texts without sign or leading zeros.
DigitsLeq(a, b) == Len(a) < Len(b) \/ (Len(a) = Len(b) /\ LexLeq(a, b))

RECURSIVE Horner(_, _, _)
Horner(d, acc, sign) ==
    IF d = <<>> THEN acc
    ELSE Horner(Tail(d), acc * 10 + sign * (d[1] - 48), sign)

\* The "i" format unit of PyArg_ParseTuple: a Python integer to a C int,
\* OverflowError when it does not fit.
AsCInt(o) ==
    LET neg == o.v[1] = 45
        mag == IF neg THEN Tail(o.v) ELSE o.v
        fits == DigitsLeq(mag, IF neg THEN INT_MIN_MAGNITUDE ELSE Digits(INT_MAX))
    IN  IF o.t # "int" THEN [ok |-> FALSE, n |-> 0, err |-> "TypeError"]
        ELSE IF ~fits THEN [ok |-> FALSE, n |-> 0, err |-> "OverflowError"]
        ELSE [ok |-> TRUE, n |-> Horner(mag, 0, IF neg THEN 0 - 1 ELSE 1), err |-> ""]

\* The "s" format unit: a str without embedded null bytes, as a C string.
AsCString(o) ==
    IF o.t # "str" THEN [ok |-> FALSE, s |-> <<>>, err |-> "TypeError"]
    ELSE IF \E i \in 1..Len(o.v) : o.v[i] = 0
         THEN [ok |-> FALSE, s |-> <<>>, err |-> "TypeError"]
    ELSE [ok |-> TRUE, s |-> o.v, err |-> ""]

\* A byte read through a (signed) char.
AsChar(b) == IF b >= 128 THEN b - 256 ELSE b

\* The position of the first null byte of s, Len(s) + 1 when it has none.
FirstNull(s) ==
    IF \E i \in 1..Len(s) : s[i] = 0
    THEN CHOOSE i \in 1..Len(s) : s[i] = 0 /\ \A j \in 1..(i - 1) : s[j] # 0
    ELSE Len(s) + 1

\* What strncpy copies of a Python string's buffer: the bytes before the
\* first null byte.
CStr(s) == SubSeq(s, 1, FirstNull(s) - 1)

(***************************************************************************)
(* base64.b64encode / base64.b64decode (binascii.b2a_base64, a2b_base64),  *)
(* which _xid_encode64 and _xid_decode64 call.                             *)
(***************************************************************************)
B64Char(i) ==
    IF i < 26 THEN 65 + i
    ELSE IF i < 52 THEN 97 + (i - 26)
    ELSE IF i < 62 THEN 48 + (i - 52)
    ELSE IF i = 62 THEN 43 ELSE 47

\* table_a2b_base64: the 6-bit value of an alphabet character, -1 otherwise.
B64Val(c) ==
    IF 65 <= c /\ c <= 90 THEN c - 65
    ELSE IF 97 <= c /\ c <= 122 THEN c - 97 + 26
    ELSE IF IsDigit(c) THEN c - 48 + 52
    ELSE IF c = 43 THEN 62
    ELSE IF c = 47 THEN 63
    ELSE 0 - 1

\* The 6-bit group k (from 0) of the bytes s, the missing bytes of the last
\* 3-byte block read as zero.
SixBits(s, k) ==
    LET base == 3 * (k \div 4)
        byte(j) == IF base + j <= Len(s) THEN s[base + j] ELSE 0
    IN  CASE k % 4 = 0 -> byte(1) \div 4
          [] k % 4 = 1 -> (byte(1) % 4) * 16 + byte(2) \div 16
          [] k % 4 = 2 -> (byte(2) % 16) * 4 + byte(3) \div 64
          [] OTHER -> byte(3) % 64

\* binascii.b2a_base64 without the newline: each block of 3 bytes gives 4
\* characters; a last block of 1 or 2 bytes gives 2 or 3 and is padded.
B64EncodeBytes(s) ==
    [k \in 1..(4 * ((Len(s) + 2) \div 3)) |->
        IF k - 1 <= (Len(s) * 8 + 5) \div 6 - 1 THEN B64Char(SixBits(s, k - 1))
        ELSE 61]

\* _xid_encode64: base64.b64encode(s).
_xid_encode64(s) == PyString(B64EncodeBytes(s.v))

\* Whether a character counts as valid for binascii_find_valid: an
\* alphabet character or the pad.
B64Valid(c) == c <= 127 /\ (B64Val(c) # 0 - 1 \/ c = 61)

\* binascii_find_valid(s + i, len - i, 1) = '=': the second valid character
\* from position i on is a pad.
NextValidIsPad(s, i) ==
    LET valid == {j \in i..Len(s) : B64Valid(s[j])}
        first == CHOOSE j \in valid : \A k \in valid : j <= k
        rest == valid \ {first}
        second == CHOOSE j \in rest : \A k \in rest : j <= k
    IN  valid # {} /\ rest # {} /\ s[second] = 61

\* quad_pos when the loop of a2b_base64 reaches position i: the alphabet
\* characters before it, modulo 4.
QuadPos(s, i) == Cardinality({j \in 1..(i - 1) : B64Val(s[j]) # 0 - 1}) % 4

\* Whether the loop stops at position i: a pad that is not ignored.
PadStops(s, i) ==
    /\ s[i] = 61
    /\ ~(QuadPos(s, i) < 2 \/ (QuadPos(s, i) = 2 /\ ~NextValidIsPad(s, i)))

\* The position of the pad where the loop stops, Len(s) + 1 when it runs to
\* the end.  No pad before the first stopping one changes quad_pos, so one
\* pass decides them all.
StopAt(s) ==
    IF \E i \in 1..Len(s) : PadStops(s, i)
    THEN CHOOSE i \in 1..Len(s) :
            PadStops(s, i) /\ \A j \in 1..(i - 1) : ~PadStops(s, j)
    ELSE Len(s) + 1

IsB64Data(c) == B64Val(c) # 0 - 1

\* Byte k (from 1) of the output: 8 bits of the 6-bit values d shifted in.
DecodedByte(d, k) ==
    LET q == 4 * ((k - 1) \div 3)
    IN  CASE (k - 1) % 3 = 0 -> B64Val(d[q + 1]) * 4 + B64Val(d[q + 2]) \div 16
          [] (k - 1) % 3 = 1 ->
                (B64Val(d[q + 2]) % 16) * 16 + B64Val(d[q + 3]) \div 4
          [] OTHER -> (B64Val(d[q + 3]) % 4) * 64 + B64Val(d[q + 4])

A2BResult(d, stopped) ==
    [ok |-> stopped \/ (Len(d) * 6) % 8 = 0,
     bytes |-> [k \in 1..((Len(d) * 6) \div 8) |-> DecodedByte(d, k)]]

\* binascii.a2b_base64: characters outside the alphabet are skipped, a pad
\* sequence ends the input (leftbits = 0), every 8 bits shifted in give a
\* byte, and bits left over at the end are "Incorrect padding".
A2B(s) ==
    A2BResult(SelectSeq(SubSeq(s, 1, StopAt(s) - 1), IsB64Data),
              StopAt(s) <= Len(s))

Decoded(r) == [ok |-> r.ok, val |-> PyString(r.bytes)]

\* _xid_decode64: base64.b64decode(s); ok is FALSE when it raises.
_xid_decode64(s) == Decoded(A2B(s.v))

(***************************************************************************)
(* The Xid type                                                            *)
(***************************************************************************)
\* xid_new: every member is None.
xid_new ==
    [format_id |-> None, gtrid |-> None, bqual |-> None,
     prepared |-> None, owner |-> None, database |-> None]

\* A variant of ComponentError that refuses 64 bytes; C4_Validation tells
\* it from the code.
ComponentErrorOffByOne(s, name) ==
    IF Len(s) >= MaxComponentLen THEN <<"ValueError", name, "too long">>
    ELSE IF \E i \in 1..Len(s) :
                AsChar(s[i]) < FirstPrintable \/ AsChar(s[i]) >= FirstNonPrintable
         THEN <<"ValueError", name, "not printable">>
    ELSE <<>>

\* The first test of one component in xid_init that fails, <<>> when none
\* does: the length, then each byte read through a char.
ComponentError(s, name) ==
    IF Len(s) > MaxComponentLen THEN <<"ValueError", name, "too long">>
    ELSE IF \E i \in 1..Len(s) :
                AsChar(s[i]) < FirstPrintable \/ AsChar(s[i]) >= FirstNonPrintable
         THEN <<"ValueError", name, "not printable">>
    ELSE <<>>

FirstError(e1, e2) == IF e1 # <<>> THEN e1 ELSE e2

\* The error xid_init raises (<<>> for none: an exception type, the
\* argument it is about and, for the ValueErrors of xid_init itself, the
\* complaint), f, g and b being the arguments as PyArg_ParseTuple
\* converted them: its failure first, then the tests of xid_init in order.
InitError(f, g, b) ==
    IF ~f.ok THEN <<f.err, "format_id">>
    ELSE IF ~g.ok THEN <<g.err, "gtrid">>
    ELSE IF ~b.ok THEN <<b.err, "bqual">>
    ELSE IF f.n < 0 \/ f.n > INT_MAX
    THEN <<"ValueError", "format_id", "not a non-negative 32-bit integer">>
    ELSE FirstError(ComponentError(g.s, "gtrid"), ComponentError(b.s, "bqual"))

\* The end of xid_init: the three members are replaced unless an error
\* was raised.
InitStore(self, f, g, b, err) ==
    [err |-> err,
     xid |-> IF err # <<>> THEN self
             ELSE [self EXCEPT !.format_id = PyInt_FromLong(f.n),
                               !.gtrid = PyString(g.s),
                               !.bqual = PyString(b.s)]]

InitConverted(self, f, g, b) == InitStore(self, f, g, b, InitError(f, g, b))

\* xid_init(self, (format_id, gtrid, bqual)): the error raised and the
\* object afterwards.
xid_init(self, args) ==
    InitConverted(self, AsCInt(args[1]), AsCString(args[2]), AsCString(args[3]))

TypeCallResult(r) == [ok |-> r.err = <<>>, err |-> r.err, xid |-> r.xid]

\* Calling the type, Xid(format_id, gtrid, bqual): tp_new then tp_init; the
\* object is dropped when tp_init fails.
XidType(args) == TypeCallResult(xid_init(xid_new, args))

\* xid_getitem(self, item): the 3-item sequence protocol.
xid_getitem(self, item) ==
    LET i == IF item < 0 THEN item + 3 ELSE item
    IN  IF i = 0 THEN [err |-> <<>>, val |-> <<self.format_id>>]
        ELSE IF i = 1 THEN [err |-> <<>>, val |-> <<self.gtrid>>]
        ELSE IF i = 2 THEN [err |-> <<>>, val |-> <<self.bqual>>]
        ELSE [err |-> <<"IndexError">>, val |-> <<>>]

\* A variant of xid_get_tid that writes bqual before gtrid; C1_RoundTrip
\* tells it from the code.
xid_get_tid_swapped(self) ==
    IF self.format_id = None
    THEN CStr(self.gtrid.v)
    ELSE CStr(self.format_id.v \o <<95>> \o _xid_encode64(self.bqual).v
              \o <<95>> \o _xid_encode64(self.gtrid).v)

\* xid_get_tid(self): the C string handed to PostgreSQL, the gtrid of an
\* unparsed xid, else "%d_%s_%s" of format_id and the two components in
\* base64.
xid_get_tid(self) ==
    IF self.format_id = None
    THEN CStr(self.gtrid.v)
    ELSE CStr(self.format_id.v \o <<95>> \o _xid_encode64(self.gtrid).v
              \o <<95>> \o _xid_encode64(self.bqual).v)

(***************************************************************************)
(* Parsing a transaction id                                                *)
(***************************************************************************)
InClass(c, digits) == IF digits THEN IsDigit(c) ELSE c # 95

\* The end of the longest run from position i of characters that are
\* digits (digits = TRUE) or are not underscores (digits = FALSE): where a
\* greedy \d+ or [^_]* stops.
SpanWhile(s, i, digits) ==
    IF \E j \in i..Len(s) : ~InClass(s[j], digits)
    THEN CHOOSE j \in i..Len(s) :
            ~InClass(s[j], digits) /\ \A k \in i..(j - 1) : InClass(s[k], digits)
    ELSE Len(s) + 1

\* A variant of MatchAt for the pattern without its final $;
\* C2_FallbackOnNoMatch tells it from the code.
MatchAtUnanchored(s, e1, e2, e3) ==
    IF /\ e1 > 1
       /\ e1 <= Len(s) /\ s[e1] = 95
       /\ e2 <= Len(s) /\ s[e2] = 95
    THEN [ok |-> TRUE,
          group |-> <<SubSeq(s, 1, e1 - 1), SubSeq(s, e1 + 1, e2 - 1),
                      SubSeq(s, e2 + 1, e3 - 1)>>]
    ELSE [ok |-> FALSE, group |-> <<>>]

MatchAt(s, e1, e2, e3) ==
    IF /\ e1 > 1
       /\ e1 <= Len(s) /\ s[e1] = 95
       /\ e2 <= Len(s) /\ s[e2] = 95
       /\ e3 = Len(s) + 1
    THEN [ok |-> TRUE,
          group |-> <<SubSeq(s, 1, e1 - 1), SubSeq(s, e1 + 1, e2 - 1),
                      SubSeq(s, e2 + 1, Len(s))>>]
    ELSE [ok |-> FALSE, group |-> <<>>]

MatchFrom2(s, e1, e2) == MatchAt(s, e1, e2, SpanWhile(s, e2 + 1, FALSE))

MatchFrom1(s, e1) == MatchFrom2(s, e1, SpanWhile(s, e1 + 1, FALSE))

\* regex.match(str) for ^(\d+)_([^_]*)_([^_]*)$ and the three groups.
RegexMatch(s) == MatchFrom1(s, SpanWhile(s, 1, TRUE))

ParseFailed == [ok |-> FALSE, xid |-> xid_new]

ParseBuilt(rv) == [ok |-> rv.ok, xid |-> rv.xid]

\* The second half of _xid_parse_string: item is group 1, gtrid and bqual
\* the results of decoding groups 2 and 3.
ParseGroups(item, gtrid, bqual) ==
    IF ~gtrid.ok \/ ~bqual.ok THEN ParseFailed
    ELSE ParseBuilt(XidType(<<PyInt_FromDigits(item), gtrid.val, bqual.val>>))

ParseMatch(m) ==
    IF ~m.ok THEN ParseFailed
    ELSE ParseGroups(m.group[1], _xid_decode64(PyString(m.group[2])),
                     _xid_decode64(PyString(m.group[3])))

\* _xid_parse_string(str): the Xid of an XA triple, or ok = FALSE where the
\* code returns NULL with an exception set.
_xid_parse_string(str) == ParseMatch(RegexMatch(str.v))

\* A variant of _xid_unparsed_from_string that leaves the empty bqual of
\* the Xid it starts from; C8_WellFormed tells it from the code.
_xid_unparsed_keeping_bqual(str) ==
    [XidType(<<PyInt_FromLong(0), PyString(<<>>), PyString(<<>>)>>).xid
        EXCEPT !.gtrid = str, !.format_id = None]

\* _xid_unparsed_from_string(str): Xid(0, "", "") with gtrid set to str and
\* format_id and bqual set to None.
_xid_unparsed_from_string(str) ==
    [XidType(<<PyInt_FromLong(0), PyString(<<>>), PyString(<<>>)>>).xid
        EXCEPT !.gtrid = str, !.format_id = None, !.bqual = None]

ParsedOrUnparsed(rv, str) ==
    IF rv.ok THEN rv.xid ELSE _xid_unparsed_from_string(str)

\* xid_from_string(str): parse, else the unparsed Xid.
xid_from_string(str) == ParsedOrUnparsed(_xid_parse_string(str), str)

(***************************************************************************)
(* xid_recover                                                             *)
(***************************************************************************)
\* A variant of SetMetadata that stores columns 2 and 3 in each other's
\* member; C5_RecoverRows tells it from the code.
SetMetadataSwapped(xid, rec) ==
    [xid EXCEPT !.prepared = rec[2], !.owner = rec[4], !.database = rec[3]]

\* The three stores of the loop body: columns 1, 2 and 3 of the row.
SetMetadata(xid, rec) ==
    [xid EXCEPT !.prepared = rec[2], !.owner = rec[3], !.database = rec[4]]

\* A variant of RecoverRow that keeps the Xid of a row that lacks a
\* metadata column; C7_AllOrNothing tells it from the code.
RecoverRowLenient(rec) ==
    IF Len(rec) < 1 THEN [ok |-> FALSE, xid |-> xid_new]
    ELSE IF Len(rec) < 4 THEN [ok |-> TRUE, xid |-> xid_from_string(rec[1])]
    ELSE [ok |-> TRUE, xid |-> [xid_from_string(rec[1]) EXCEPT
                                    !.prepared = rec[2], !.owner = rec[3],
                                    !.database = rec[4]]]

\* One pass of the loop body of xid_recover on row rec: the Xid of column 0
\* with its metadata; ok is FALSE when PySequence_GetItem fails on a
\* missing column.
RecoverRow(rec) ==
    IF Len(rec) < 4 THEN [ok |-> FALSE, xid |-> xid_new]
    ELSE [ok |-> TRUE, xid |-> SetMetadata(xid_from_string(rec[1]), rec)]

RECURSIVE RecoverRows(_, _, _)
RECURSIVE RecoverNext(_, _, _, _)
\* The loop of xid_recover from row i on, xids being the list so far.
RecoverRows(recs, i, xids) ==
    IF i > Len(recs) THEN [ok |-> TRUE, xids |-> xids]
    ELSE RecoverNext(recs, i, xids, RecoverRow(recs[i]))

\* r is the outcome of row i: an error leaves the loop, a Xid is stored in
\* the list.
RecoverNext(recs, i, xids, r) ==
    IF ~r.ok THEN [ok |-> FALSE, xids |-> <<>>]
    ELSE RecoverRows(recs, i + 1, Append(xids, r.xid))

RecoverReturn(r) ==
    [ok |-> r.ok, xids |-> r.xids,
     calls |-> <<"cursor", "execute", "fetchall", "close">>]

\* xid_recover(conn).  conn.fail names the call on the connection or the
\* cursor that raises ("" when none does), conn.recs is what fetchall
\* returns.  calls lists the methods invoked, in order.
xid_recover(conn) ==
    IF conn.fail = "cursor"
    THEN [ok |-> FALSE, xids |-> <<>>, calls |-> <<"cursor">>]
    ELSE IF conn.fail = "execute"
    THEN [ok |-> FALSE, xids |-> <<>>, calls |-> <<"cursor", "execute">>]
    ELSE IF conn.fail = "fetchall"
    THEN [ok |-> FALSE, xids |-> <<>>,
          calls |-> <<"cursor", "execute", "fetchall">>]
    ELSE IF conn.fail = "close"
    THEN [ok |-> FALSE, xids |-> <<>>,
          calls |-> <<"cursor", "execute", "fetchall", "close">>]
    ELSE RecoverReturn(RecoverRows(conn.recs, 1, <<>>))

(***************************************************************************)
(* State.  heap: the Xid objects the caller holds, in creation order.      *)
(* made: for each of them, the call that created it (a history variable).  *)
(* ret: the last call, its arguments and what it returned.                 *)
(***************************************************************************)
\* A call: op, its Python arguments and, when the string argument is the
\* transaction id xid_get_tid returned for a live object, that object (src,
\* 0 otherwise); the error raised (<<>> for none), the objects returned
\* (refs, as heap positions) and the other values returned (val).  For
\* xid_recover: the methods invoked (calls), the one that raised (fail) and
\* the rows fetched (recs).
NoCall ==
    [op |-> "", args |-> <<>>, src |-> 0, err |-> <<>>, refs |-> <<>>,
     val |-> <<>>, calls |-> <<>>, fail |-> "", recs |-> <<>>]

Call(op, args) == [NoCall EXCEPT !.op = op, !.args = args]

Init ==
    /\ heap = <<>>
    /\ made = <<>>
    /\ ret = NoCall

XidReturns(args, r) ==
    /\ heap' = IF r.ok THEN Append(heap, r.xid) ELSE heap
    /\ made' = IF r.ok THEN Append(made, Call("Xid", args)) ELSE made
    /\ ret' = [Call("Xid", args) EXCEPT
                 !.err = r.err,
                 !.refs = IF r.ok THEN <<Len(heap) + 1>> ELSE <<>>]

\* Xid(format_id, gtrid, bqual)
CallXid(args) == XidReturns(args, XidType(args))

InitReturns(i, args, r) ==
    /\ heap' = [heap EXCEPT ![i] = r.xid]
    /\ ret' = [Call("__init__", args) EXCEPT !.err = r.err, !.refs = <<i>>]
    /\ UNCHANGED made

\* xid.__init__(format_id, gtrid, bqual) on the live object i
CallInit(i, args) == InitReturns(i, args, xid_init(heap[i], args))

GetItemReturns(i, r) ==
    /\ ret' = [Call("__getitem__", <<>>) EXCEPT
                 !.err = r.err, !.refs = <<i>>, !.val = r.val]
    /\ UNCHANGED <<heap, made>>

\* xid[item]
CallGetItem(i, item) == GetItemReturns(i, xid_getitem(heap[i], item))

\* xid_get_tid(xid)
CallGetTid(i) ==
    /\ ret' = [Call("xid_get_tid", <<>>) EXCEPT
                 !.refs = <<i>>, !.val = <<PyString(xid_get_tid(heap[i]))>>]
    /\ UNCHANGED <<heap, made>>

FromStringReturns(c, xid) ==
    /\ heap' = Append(heap, xid)
    /\ made' = Append(made, c)
    /\ ret' = [c EXCEPT !.refs = <<Len(heap) + 1>>]

\* xid_from_string(str)
CallFromString(str, src) ==
    FromStringReturns([Call("xid_from_string", <<str>>) EXCEPT !.src = src],
                      xid_from_string(str))

\* xid_ensure(oxid) on the live Xid i: the same object, one more reference.
CallEnsureXid(i) ==
    /\ ret' = [Call("xid_ensure", <<>>) EXCEPT !.refs = <<i>>]
    /\ UNCHANGED <<heap, made>>

\* xid_ensure(oxid) on an object that is no Xid: a string goes through
\* xid_from_string, anything else is a TypeError.
CallEnsure(oxid) ==
    IF oxid.t = "str"
    THEN /\ heap' = Append(heap, xid_from_string(oxid))
         /\ made' = Append(made, Call("xid_from_string", <<oxid>>))
         /\ ret' = [Call("xid_ensure", <<oxid>>) EXCEPT !.refs = <<Len(heap) + 1>>]
    ELSE /\ ret' = [Call("xid_ensure", <<oxid>>) EXCEPT !.err = <<"TypeError">>]
         /\ UNCHANGED <<heap, made>>

RecoverReturns(conn, r) ==
    /\ heap' = IF r.ok THEN heap \o r.xids ELSE heap
    /\ made' = IF r.ok
               THEN made \o [k \in 1..Len(r.xids) |->
                               Call("xid_recover", <<conn.recs[k][1]>>)]
               ELSE made
    /\ ret' = [Call("xid_recover", <<>>) EXCEPT
                 !.err = IF r.ok THEN <<>> ELSE <<"Error">>,
                 !.refs = IF r.ok THEN [k \in 1..Len(r.xids) |-> Len(heap) + k]
                          ELSE <<>>,
                 !.calls = r.calls,
                 !.fail = conn.fail,
                 !.recs = IF conn.fail \in {"", "close"} THEN conn.recs ELSE <<>>]

\* xid_recover(conn)
CallRecover(conn) == RecoverReturns(conn, xid_recover(conn))

\* xid_dealloc: the caller drops every reference it holds, and the last
\* result.
ReleaseAll ==
    /\ ret # NoCall
    /\ heap' = <<>>
    /\ made' = <<>>
    /\ ret' = NoCall

(***************************************************************************)
(* Spec: any sequence of calls on a few objects.                           *)
(***************************************************************************)
\* The most objects the caller holds at once.
MaxHeap == 2

\* "1_YWJj_eHl6": (1, "abc", "xyz")
A_GID == PyString(<<49, 95, 89, 87, 74, 106, 95, 101, 72, 108, 54>>)

\* "ab_cd", "1_fw==_" (the gtrid decodes to the byte 0x7f)
B_GID == PyString(<<97, 98, 95, 99, 100>>)

C_GID == PyString(<<49, 95, 102, 119, 61, 61, 95>>)

\* (7, "a", "a") and (7, "a", "\x7f")
XidArgs ==
    {<<PyInt(<<55>>), PyString(<<97>>), PyString(<<97>>)>>,
     <<PyInt(<<55>>), PyString(<<97>>), PyString(<<127>>)>>}

StringArgs == {A_GID, B_GID, C_GID}

\* ("1_YWJj_eHl6", "2024-01-01", "alice", "db1")
ROW_A ==
    <<A_GID, PyString(<<50, 48, 50, 52, 45, 48, 49, 45, 48, 49>>), PyString(<<97, 108, 105, 99, 101>>), PyString(<<100, 98, 49>>)>>

\* ("ab_cd", "2024-02-02", "bob", "db2")
ROW_B ==
    <<B_GID, PyString(<<50, 48, 50, 52, 45, 48, 50, 45, 48, 50>>), PyString(<<98, 111, 98>>), PyString(<<100, 98, 50>>)>>

ConnArgs ==
    {[fail |-> "", recs |-> <<ROW_A>>],
     [fail |-> "", recs |-> <<ROW_B, ROW_A>>],
     [fail |-> "", recs |-> <<ROW_A, SubSeq(ROW_B, 1, 3)>>],
     [fail |-> "execute", recs |-> <<>>]}

Construct ==
    /\ Len(heap) < MaxHeap
    /\ \E args \in XidArgs : CallXid(args)

Reinit == \E i \in 1..Len(heap), args \in XidArgs : CallInit(i, args)

GetItem == \E i \in 1..Len(heap), item \in {0 - 1, 1, 3} : CallGetItem(i, item)

GetTid == \E i \in 1..Len(heap) : CallGetTid(i)

FromString ==
    /\ Len(heap) < MaxHeap
    /\ \E str \in StringArgs : CallFromString(str, 0)

EnsureXid == \E i \in 1..Len(heap) : CallEnsureXid(i)

Ensure ==
    /\ Len(heap) < MaxHeap
    /\ \E oxid \in {B_GID, None} : CallEnsure(oxid)

Recover ==
    \E conn \in ConnArgs :
        Len(heap) + Len(conn.recs) <= MaxHeap /\ CallRecover(conn)

Next ==
    \/ Construct
    \/ Reinit
    \/ GetItem
    \/ GetTid
    \/ FromString
    \/ EnsureXid
    \/ Ensure
    \/ Recover
    \/ ReleaseAll

Spec == Init /\ [][Next]_vars

(***************************************************************************)
(* SpecCodec: the codec on a wide range of inputs.  A triple is            *)
(* constructed, encoded, and the transaction id decoded again; or a        *)
(* string is decoded and the result encoded.                               *)
(***************************************************************************)
\* The longest component enumerated over CodecBytes.
CodecMaxLen == 3

\* The two ends of the printable range, 0x20 and 0x7e.
CodecBytes == {32, 126}

SeqsUpTo(n, S) == UNION {[1..k -> S] : k \in 0..n}

Repeat(c, n) == [i \in 1..n |-> c]

\* Components xid_init accepts: short ones, "a", "abc", "xyz", and 64 bytes.
GoodComponents ==
    SeqsUpTo(CodecMaxLen, CodecBytes)
        \cup {<<97>>, <<97, 98, 99>>, <<120, 121, 122>>, Repeat(97, MaxComponentLen)}

\* Components it rejects: 65 bytes, the bytes 0x1f, 0x7f, 0x80 and 0x00.
BadComponents ==
    {Repeat(97, MaxComponentLen + 1), <<31>>, <<127>>, <<97, 128>>, <<97, 0, 98>>}

CodecComponents == {PyString(s) : s \in GoodComponents \cup BadComponents}

\* -2147483649, -2147483648, -1, 0, 1, 2147483647, 2147483648, 10^20
CodecFormatIds ==
    {PyInt(<<45, 50, 49, 52, 55, 52, 56, 51, 54, 52, 57>>), PyInt(<<45, 50, 49, 52, 55, 52, 56, 51, 54, 52, 56>>), PyInt(<<45, 49>>), PyInt(<<48>>),
     PyInt(<<49>>), PyInt(<<50, 49, 52, 55, 52, 56, 51, 54, 52, 55>>), PyInt(<<50, 49, 52, 55, 52, 56, 51, 54, 52, 56>>),
     PyInt(<<49, 48, 48, 48, 48, 48, 48, 48, 48, 48, 48, 48, 48, 48, 48, 48, 48, 48, 48, 48, 48>>)}

\* First fields: "1", "01", "0", "2147483647", "2147483648", "x", "1a", "".
WireField1 ==
    {<<49>>, <<48, 49>>, <<48>>, <<50, 49, 52, 55, 52, 56, 51, 54, 52, 55>>, <<50, 49, 52, 55, 52, 56, 51, 54, 52, 56>>, <<120>>, <<49, 97>>, <<>>}

\* Second and third fields: "", "YQ==", "YWJj", "eHl6", "YQ", "Y", "%%%",
\* "YR==", "Hw==", "fw==", "AA==", "gA==", "YQ=", "=YQ==", "Y Q==",
\* "YQ==\n", "YW=Jj", and 64 and 65 times "a" in base64.
WireField23 ==
    {<<>>, <<89, 81, 61, 61>>, <<89, 87, 74, 106>>, <<101, 72, 108, 54>>, <<89, 81>>, <<89>>, <<37, 37, 37>>, <<89, 82, 61, 61>>, <<72, 119, 61, 61>>, <<102, 119, 61, 61>>,
     <<65, 65, 61, 61>>, <<103, 65, 61, 61>>, <<89, 81, 61>>, <<61, 89, 81, 61, 61>>, <<89, 32, 81, 61, 61>>, <<89, 81, 61, 61, 10>>, <<89, 87, 61, 74, 106>>,
     B64EncodeBytes(Repeat(97, MaxComponentLen)),
     B64EncodeBytes(Repeat(97, MaxComponentLen + 1))}

\* "some_random_prepared_name", "", "abc", "1_YQ==", "1_YQ==_YQ==_",
\* "1_YQ==_YQ==_x", "a\x00b"
OtherWires ==
    {<<115, 111, 109, 101, 95, 114, 97, 110, 100, 111, 109, 95, 112, 114, 101, 112, 97, 114, 101, 100, 95, 110, 97, 109, 101>>, <<>>, <<97, 98, 99>>, <<49, 95, 89, 81, 61, 61>>, <<49, 95, 89, 81, 61, 61, 95, 89, 81, 61, 61, 95>>,
     <<49, 95, 89, 81, 61, 61, 95, 89, 81, 61, 61, 95, 120>>, <<97, 0, 98>>}

CodecWires ==
    {PyString(f1 \o <<95>> \o f2 \o <<95>> \o f3) :
        f1 \in WireField1, f2 \in WireField23, f3 \in WireField23}
        \cup {PyString(s) : s \in OtherWires}

CodecConstruct ==
    /\ heap = <<>> /\ ret = NoCall
    /\ \E f \in CodecFormatIds, g \in CodecComponents, b \in CodecComponents :
          CallXid(<<f, g, b>>)

CodecDecode ==
    /\ heap = <<>> /\ ret = NoCall
    /\ \E str \in CodecWires : CallFromString(str, 0)

CodecEncode ==
    /\ Len(heap) = 1
    /\ CallGetTid(1)

\* The transaction id just returned is parsed back.
CodecDecodeTid ==
    /\ Len(heap) = 1
    /\ ret.op = "xid_get_tid"
    /\ CallFromString(ret.val[1], 1)

NextCodec ==
    \/ CodecConstruct
    \/ CodecDecode
    \/ CodecEncode
    \/ CodecDecodeTid
    \/ ReleaseAll

SpecCodec == Init /\ [][NextCodec]_vars

(***************************************************************************)
(* SpecRecover: xid_recover on every connection behaviour and every list   *)
(* of up to MaxRows rows, whole or cut short.                              *)
(***************************************************************************)
\* The most rows fetchall returns.
MaxRows == 2

\* ("1_%%%_eHl6", "2024-03-03", "carol", "db1", "extra"): five columns
ROW_C ==
    <<PyString(<<49, 95, 37, 37, 37, 95, 101, 72, 108, 54>>), PyString(<<50, 48, 50, 52, 45, 48, 51, 45, 48, 51>>), PyString(<<99, 97, 114, 111, 108>>),
      PyString(<<100, 98, 49>>), PyString(<<101, 120, 116, 114, 97>>)>>

RowArgs ==
    {SubSeq(ROW_A, 1, k) : k \in 0..4} \cup {SubSeq(ROW_B, 1, k) : k \in 1..4}
        \cup {ROW_C}

RecoverScan ==
    /\ heap = <<>> /\ ret = NoCall
    /\ \E fail \in {"", "cursor", "execute", "fetchall", "close"},
          recs \in SeqsUpTo(MaxRows, RowArgs) :
          CallRecover([fail |-> fail, recs |-> recs])

RecoverGetItem ==
    \E i \in 1..Len(heap), item \in 0..2 : CallGetItem(i, item)

NextRecover ==
    \/ RecoverScan
    \/ RecoverGetItem
    \/ ReleaseAll

SpecRecover == Init /\ [][NextRecover]_vars

(***************************************************************************)
(* Vocabulary of the properties                                            *)
(***************************************************************************)
Triple(xid) == <<xid.format_id, xid.gtrid, xid.bqual>>

Metadata(xid) == <<xid.prepared, xid.owner, xid.database>>

\* The unparsed Xid of a string: only gtrid is set.
UnparsedOf(str) == [xid_new EXCEPT !.gtrid = str]

\* 0 <= n <= 0x7fffffff for a Python integer given by its decimal text.
FormatIdInRange(o) ==
    o.t = "int" /\ o.v[1] # 45 /\ DigitsLeq(o.v, <<50, 49, 52, 55, 52, 56, 51, 54, 52, 55>>)

ShortEnough(o) == o.t = "str" /\ Len(o.v) <= 64

Printable(o) == o.t = "str" /\ \A i \in 1..Len(o.v) : 32 <= o.v[i] /\ o.v[i] < 127

ValidTriple(args) ==
    /\ FormatIdInRange(args[1])
    /\ ShortEnough(args[2]) /\ ShortEnough(args[3])
    /\ Printable(args[2]) /\ Printable(args[3])

Underscores(s) == {i \in 1..Len(s) : s[i] = 95}

\* s has the shape ^(\d+)_([^_]*)_([^_]*)$: two underscores, and before
\* the first of them one or more digits.
MatchesPattern(s) ==
    /\ Cardinality(Underscores(s)) = 2
    /\ \E u \in Underscores(s) : u > 1 /\ \A i \in 1..(u - 1) : IsDigit(s[i])

\* Field k (1, 2, 3) of a string with two underscores.
Field(s, k) ==
    LET u1 == CHOOSE u \in Underscores(s) : \A w \in Underscores(s) : u <= w
        u2 == CHOOSE u \in Underscores(s) : \A w \in Underscores(s) : w <= u
    IN  CASE k = 1 -> SubSeq(s, 1, u1 - 1)
          [] k = 2 -> SubSeq(s, u1 + 1, u2 - 1)
          [] OTHER -> SubSeq(s, u2 + 1, Len(s))

\* Base64 as RFC 4648 writes it: blocks of four alphabet characters, the
\* last block ending in at most two pads.
WellFormedBase64(f) ==
    /\ Len(f) % 4 = 0
    /\ \A i \in 1..Len(f) :
          \/ B64Val(f[i]) # 0 - 1
          \/ f[i] = 61 /\ i >= Len(f) - 1 /\ f[Len(f)] = 61

\* The spec's error kinds.  InvalidFormatId is any error about format_id:
\* the ValueError of xid_init and the OverflowError of the argument
\* conversion.  NonPrintableComponent is the ValueError of the byte test and
\* the TypeError of the conversion of a string with a null byte.
ErrorKind(err) ==
    IF err = <<>> THEN "none"
    ELSE IF err[2] = "format_id" THEN "InvalidFormatId"
    ELSE IF err[1] = "ValueError" /\ err[3] = "too long" THEN "ComponentTooLong"
    ELSE "NonPrintableComponent"

(***************************************************************************)
(* C1                                                                      *)
(***************************************************************************)
\* C1: round trip.  When a triple the validator accepts is constructed,
\* encoded by xid_get_tid and the transaction id decoded by
\* xid_from_string, the decoded Xid has the format_id, gtrid and bqual that
\* were given to the constructor.
C1_RoundTrip ==
    (Len(heap) = 2 /\ made[1].op = "Xid" /\ made[2].src = 1)
        => Triple(heap[2]) = made[1].args

\* (1, "abc", "xyz") -> "1_YWJj_eHl6" -> (1, "abc", "xyz")
C1_Witness ==
    /\ Len(heap) = 2
    /\ made[1].op = "Xid"
    /\ made[1].args = <<PyInt(<<49>>), PyString(<<97, 98, 99>>), PyString(<<120, 121, 122>>)>>
    /\ made[2].src = 1
    /\ made[2].args = <<PyString(<<49, 95, 89, 87, 74, 106, 95, 101, 72, 108, 54>>)>>
    /\ Triple(heap[2]) = <<PyInt(<<49>>), PyString(<<97, 98, 99>>), PyString(<<120, 121, 122>>)>>

(***************************************************************************)
(* C2                                                                      *)
(***************************************************************************)
\* C2: for a string that does not match the pattern, xid_from_string
\* raises nothing and returns the unparsed Xid: format_id and bqual None,
\* gtrid the string itself.
C2_FallbackOnNoMatch ==
    \A i \in 1..Len(heap) :
        (made[i].op = "xid_from_string" /\ ~MatchesPattern(made[i].args[1].v))
            => /\ heap[i] = UnparsedOf(made[i].args[1])
               /\ (ret.op = "xid_from_string" /\ ret.refs = <<i>>
                      => ret.err = <<>>)

C2_Witness ==
    /\ Len(heap) = 1
    /\ ret.op = "xid_from_string"
    /\ ret.args = <<PyString(<<115, 111, 109, 101, 95, 114, 97, 110, 100, 111, 109, 95, 112, 114, 101, 112, 97, 114, 101, 100, 95, 110, 97, 109, 101>>)>>
    /\ heap[1].gtrid = PyString(<<115, 111, 109, 101, 95, 114, 97, 110, 100, 111, 109, 95, 112, 114, 101, 112, 97, 114, 101, 100, 95, 110, 97, 109, 101>>)
    /\ heap[1].format_id = None
    /\ heap[1].bqual = None

(***************************************************************************)
(* C3                                                                      *)
(***************************************************************************)
\* C3: for a string that matches the pattern but whose second or third
\* field is malformed base64, or whose decoded triple the validator
\* rejects, xid_from_string returns the unparsed Xid of the whole string.
C3_FallbackOnBadFields ==
    \A i \in 1..Len(heap) :
        LET s == made[i].args[1].v
            g == Field(s, 2)
            b == Field(s, 3)
        IN  (/\ made[i].op = "xid_from_string"
             /\ MatchesPattern(s)
             /\ \/ ~WellFormedBase64(g)
                \/ ~WellFormedBase64(b)
                \/ ~ValidTriple(<<PyInt_FromDigits(Field(s, 1)),
                                  PyString(A2B(g).bytes), PyString(A2B(b).bytes)>>))
                => heap[i] = UnparsedOf(made[i].args[1])

(***************************************************************************)
(* C4                                                                      *)
(***************************************************************************)
\* C4: Xid(format_id, gtrid, bqual) succeeds exactly when 0 <= format_id <=
\* 0x7fffffff and both components have at most 64 bytes, all in
\* [0x20, 0x7f); a failure produces no object; and when one rule alone is
\* broken the error is that rule's.
C4_Validation ==
    ret.op = "Xid" =>
        LET f == FormatIdInRange(ret.args[1])
            l == ShortEnough(ret.args[2]) /\ ShortEnough(ret.args[3])
            p == Printable(ret.args[2]) /\ Printable(ret.args[3])
        IN  /\ (ret.err = <<>>) <=> (f /\ l /\ p)
            /\ ret.err # <<>> => ret.refs = <<>> /\ heap = <<>>
            /\ ret.err = <<>> =>
                  ret.refs = <<1>> /\ Len(heap) = 1 /\ Triple(heap[1]) = ret.args
            /\ (~f /\ l /\ p) => ErrorKind(ret.err) = "InvalidFormatId"
            /\ (f /\ ~l /\ p) => ErrorKind(ret.err) = "ComponentTooLong"
            /\ (f /\ l /\ ~p) => ErrorKind(ret.err) = "NonPrintableComponent"

\* A gtrid of 65 bytes is refused as too long.
C4_Witness ==
    /\ ret.op = "Xid"
    /\ ret.args = <<PyInt(<<49>>), PyString(Repeat(97, 65)), PyString(<<97>>)>>
    /\ ret.err = <<"ValueError", "gtrid", "too long">>
    /\ heap = <<>>

(***************************************************************************)
(* C5                                                                      *)
(***************************************************************************)
\* C5: when nothing fails and every row has 4 columns, xid_recover returns
\* one Xid per row, in the order of the rows: the Xid of column 0 with
\* columns 1, 2 and 3 as prepared, owner and database.
C5_RecoverRows ==
    (/\ ret.op = "xid_recover"
     /\ ret.fail = ""
     /\ \A k \in 1..Len(ret.recs) : Len(ret.recs[k]) = 4)
        => /\ ret.err = <<>>
           /\ Len(ret.refs) = Len(ret.recs)
           /\ \A k \in 1..Len(ret.recs) :
                 /\ Triple(heap[ret.refs[k]])
                        = Triple(xid_from_string(ret.recs[k][1]))
                 /\ Metadata(heap[ret.refs[k]])
                        = <<ret.recs[k][2], ret.recs[k][3], ret.recs[k][4]>>

\* ("ab_cd", ...) then ("1_YWJj_eHl6", "2024-01-01", "alice", "db1")
C5_Witness ==
    /\ ret.op = "xid_recover"
    /\ ret.recs = <<ROW_B, ROW_A>>
    /\ ret.refs = <<1, 2>>
    /\ heap[1].gtrid = B_GID
    /\ Triple(heap[2]) = <<PyInt(<<49>>), PyString(<<97, 98, 99>>), PyString(<<120, 121, 122>>)>>
    /\ heap[2].owner = PyString(<<97, 108, 105, 99, 101>>)
    /\ heap[2].database = PyString(<<100, 98, 49>>)

(***************************************************************************)
(* C6                                                                      *)
(***************************************************************************)
\* C6: whenever xid_recover obtained a cursor, it has called close on it
\* when it returns, whether it succeeds or fails.
C6_CloseOnEveryExit ==
    (ret.op = "xid_recover" /\ ret.fail # "cursor")
        => \E k \in 1..Len(ret.calls) : ret.calls[k] = "close"

(***************************************************************************)
(* C7                                                                      *)
(***************************************************************************)
\* C7: xid_recover is all or nothing.  If a call on the connection or the
\* cursor fails, or a row lacks a column, it raises and returns no list and
\* no Xid; a list it returns has one Xid per fetched row, each with the
\* three metadata of its row.
C7_AllOrNothing ==
    ret.op = "xid_recover" =>
        /\ (ret.fail # "" \/ \E k \in 1..Len(ret.recs) : Len(ret.recs[k]) < 4)
              => (ret.err # <<>> /\ ret.refs = <<>> /\ heap = <<>>)
        /\ ret.err = <<>> =>
              /\ Len(ret.refs) = Len(ret.recs)
              /\ Len(heap) = Len(ret.recs)
              /\ \A k \in 1..Len(ret.recs) :
                    /\ made[ret.refs[k]].args = <<ret.recs[k][1]>>
                    /\ Metadata(heap[ret.refs[k]])
                          = <<ret.recs[k][2], ret.recs[k][3], ret.recs[k][4]>>

\* A whole row followed by a row of 3 columns: an error, and nothing kept.
C7_Witness ==
    /\ ret.op = "xid_recover"
    /\ ret.fail = ""
    /\ ret.recs = <<ROW_A, SubSeq(ROW_B, 1, 3)>>
    /\ ret.err # <<>>
    /\ ret.refs = <<>>
    /\ heap = <<>>

(***************************************************************************)
(* C8                                                                      *)
(***************************************************************************)
WellFormed(xid) ==
    \/ /\ FormatIdInRange(xid.format_id)
       /\ ShortEnough(xid.gtrid) /\ Printable(xid.gtrid)
       /\ ShortEnough(xid.bqual) /\ Printable(xid.bqual)
    \/ /\ xid.format_id = None
       /\ xid.bqual = None
       /\ xid.gtrid.t = "str"

\* C8: every Xid a caller holds either has a format_id in [0, 0x7fffffff]
\* and two components of at most 64 printable bytes, or has format_id and
\* bqual None and the raw string as gtrid.
C8_WellFormed ==
    \A i \in 1..Len(heap) :
        /\ WellFormed(heap[i])
        /\ (heap[i].format_id = None /\ made[i].op # "Xid")
              => heap[i].gtrid = made[i].args[1]

\* A recovered unparsed Xid beside a structured one.
C8_Witness ==
    /\ Len(heap) = 2
    /\ made[1].op = "xid_recover" /\ heap[1].format_id = None
    /\ heap[1].gtrid = B_GID
    /\ made[2].op = "xid_recover" /\ heap[2].format_id = PyInt(<<49>>)

(***************************************************************************)
(* C9                                                                      *)
(***************************************************************************)
\* The Xids built by the constructor or by xid_from_string carry no
\* metadata.
C9_NoMetadataUnlessRecovered ==
    \A i \in 1..Len(heap) :
        made[i].op \in {"Xid", "xid_from_string"}
            => Metadata(heap[i]) = <<None, None, None>>

\* No call changes a member of a Xid that exists.
C9_Kept ==
    \A i \in 1..Len(heap) :
        i <= Len(heap') =>
            Triple(heap'[i]) = Triple(heap[i])
                /\ Metadata(heap'[i]) = Metadata(heap[i])

\* C9: once a Xid is constructed no later call (xid_get_tid, xid_ensure,
\* reading it as a sequence, its initializer again, xid_recover) changes
\* its format_id, gtrid or bqual; its metadata are None unless xid_recover
\* built it, and are not changed after it is returned.
C9_Immutable == [][C9_Kept]_vars /\ []C9_NoMetadataUnlessRecovered

(***************************************************************************)
(* C10                                                                     *)
(***************************************************************************)
\* C10: for every string s, xid_get_tid of xid_from_string(s) is s.
C10_ReEncode ==
    (/\ ret.op = "xid_get_tid"
     /\ made[ret.refs[1]].op = "xid_from_string")
        => ret.val = made[ret.refs[1]].args

====
